---- MODULE Spec2Model ----
(***************************************************************************)
(* Verification model of auto_offset_z.py: the AUTO_OFFSET_Z calibration   *)
(* controller of a Klipper host (class AutoOffsetZCalibration).            *)
(*                                                                         *)
(* All lengths are fixed-point integers in units of 0.0001 mm, so that a   *)
(* value scaled by 10 ** 3 has one decimal digit left and the half         *)
(* boundary of the rounding rule is representable exactly.                 *)
(***************************************************************************)
EXTENDS Integers, Sequences, FiniteSets, TLC

\* ------------------------------------------------------------------ bounds
\* Measured heights range over -MaxZ .. MaxZ (units of 0.0001 mm).
MaxZ == 8

\* Decimal digits of the fixed-point representation (units of 10 ** -4 mm).
Resolution == 4

\* The decimals argument of the one call of rounding.
Decimals == 3

\* Fixed-point units per 10 ** -Decimals mm.
Milli == 10 ^ (Resolution - Decimals)

Heights == -MaxZ .. MaxZ

\* Values and installed offsets of the direct calls of set_offset, and the
\* number of such calls in a row.
MaxApplied == 6

MaxApplierCalls == 2

AppliedValues == -MaxApplied .. MaxApplied

Axes == {"x", "y", "z"}

\* Z offsets the host may have installed before the controller is loaded.
PriorOffsets == {0, 7, -20}

\* ----------------------------------------------------------- configuration
\* The sections and options of the configuration file read by __init__.
BaseConfig ==
    [ speed |-> 500000,
      has_safe_z_home |-> TRUE, z_hop |-> 100000,
      has_bltouch |-> TRUE, bltouch_x_offset |-> 30, bltouch_y_offset |-> 0,
      has_probe |-> FALSE, probe_x_offset |-> 0, probe_y_offset |-> 0,
      virtual_endstop |-> FALSE,
      has_qgl |-> FALSE, has_ztilt |-> FALSE, ignore_alignment |-> FALSE,
      offsetadjust |-> 0, endstopswitch |-> Milli \div 2,
      offset_min |-> -Milli, offset_max |-> Milli,
      endstop_min |-> 0, endstop_max |-> 0,
      probe_points |-> << <<100, 200>>, <<300, 400>> >> ]

Configs ==
    { [ BaseConfig EXCEPT !.has_qgl = q, !.has_ztilt = t,
                          !.ignore_alignment = i,
                          !.offsetadjust = a, !.endstopswitch = s,
                          !.endstop_min = lo, !.endstop_max = hi ] :
        q \in BOOLEAN, t \in BOOLEAN, i \in BOOLEAN,
        a \in {0, 4}, s \in {0, Milli \div 2},
        lo \in {0, -5}, hi \in {0, 5} }

\* Configuration files that differ in the sections and options checked by
\* __init__; the options of a section exist only if the section does.
SectionConfigs ==
    { c \in { [ BaseConfig EXCEPT !.speed = sp,
                                  !.has_safe_z_home = h, !.z_hop = zh,
                                  !.has_bltouch = b,
                                  !.bltouch_x_offset = bx,
                                  !.bltouch_y_offset = by,
                                  !.has_probe = p,
                                  !.probe_x_offset = px,
                                  !.probe_y_offset = py,
                                  !.virtual_endstop = v,
                                  !.has_qgl = q, !.has_ztilt = t,
                                  !.ignore_alignment = i ] :
                sp \in {0, 500000}, h \in BOOLEAN, zh \in {0, 100000},
                b \in BOOLEAN, bx \in {0, 30}, by \in {0, 20},
                p \in BOOLEAN, px \in {0, 40}, py \in {0, 60},
                v \in BOOLEAN, q \in BOOLEAN, t \in BOOLEAN, i \in BOOLEAN } :
        /\ ~c.has_safe_z_home => c.z_hop = 0
        /\ ~c.has_bltouch => (c.bltouch_x_offset = 0 /\ c.bltouch_y_offset = 0)
        /\ ~c.has_probe => (c.probe_x_offset = 0 /\ c.probe_y_offset = 0) }

\* ------------------------------------------------------------------- state
VARIABLES
    config,          \* the configuration file
    self,            \* the attributes of the AutoOffsetZCalibration object
    registered,      \* AUTO_OFFSET_Z is registered with the gcode dispatcher
    gcode_offset_z,  \* Z coordinate offset installed in gcode_move
    printer,         \* status of the host objects read by the command
    pc,              \* position of the command handler
    kin_status,      \* homed_axes as read by the running command
    alignment_status,\* "applied" as read by the running command
    positions,       \* results collected by the probe helper
    calc,            \* zendstop, zbed, diffbedendstop, offset of probe_finalize
    err,             \* the exception that ended the command
    offset_cmds,     \* Z values of the SET_GCODE_OFFSET commands of this run
    calls,           \* calls of start_probe, probe_finalize, set_offset
    prior_offset     \* gcode_offset_z at the time the command was invoked

vars == << config, self, registered, gcode_offset_z, printer, pc, kin_status,
           alignment_status, positions, calc, err, offset_cmds, calls,
           prior_offset >>

NoSelf ==
    [ ignore_alignment |-> FALSE, offsetadjust |-> 0, offset_min |-> 0,
      offset_max |-> 0, endstop_min |-> 0, endstop_max |-> 0,
      endstopswitch |-> 0, speed |-> 0, zHop |-> 0,
      x_offset |-> 0, y_offset |-> 0,
      adjusttype |-> "unset",
      probePoints |-> << <<0, 0>>, <<0, 0>> >>, minimum_points |-> 0 ]

NoCalc == [ zendstop |-> 0, zbed |-> 0, diffbedendstop |-> 0, offset |-> 0 ]

NoCalls == [ start_probe |-> 0, probe_finalize |-> 0, set_offset |-> 0 ]

Abs(n) == IF n < 0 THEN -n ELSE n


\* ------------------------------------------------------------- __init__
\* Variant of config_error whose [probe] branch lacks the virtual_endstop check.
config_error_probe_unchecked(c) ==
    IF ~(c.speed > 0) THEN "speed_not_above_0"
    ELSE IF ~c.has_safe_z_home THEN "no_safe_z_home"
    ELSE IF c.z_hop = 0 THEN "no_z_hop"
    ELSE IF c.has_bltouch THEN
        IF c.bltouch_x_offset = 0 /\ c.bltouch_y_offset = 0
        THEN "bltouch_offsets_zero"
        ELSE IF c.virtual_endstop THEN "bltouch_virtual_endstop"
        ELSE IF c.has_qgl \/ c.has_ztilt \/ c.ignore_alignment THEN "none"
        ELSE "no_alignment"
    ELSE IF c.has_probe THEN
        IF c.probe_x_offset = 0 /\ c.probe_y_offset = 0
        THEN "probe_offsets_zero"
        ELSE IF c.has_qgl \/ c.has_ztilt \/ c.ignore_alignment THEN "none"
        ELSE "no_alignment"
    ELSE "no_sensor"

\* The configuration error raised by __init__, or "none".
config_error(c) ==
    IF ~(c.speed > 0) THEN "speed_not_above_0"
    ELSE IF ~c.has_safe_z_home THEN "no_safe_z_home"
    ELSE IF c.z_hop = 0 THEN "no_z_hop"
    ELSE IF c.has_bltouch THEN
        IF c.bltouch_x_offset = 0 /\ c.bltouch_y_offset = 0
        THEN "bltouch_offsets_zero"
        ELSE IF c.virtual_endstop THEN "bltouch_virtual_endstop"
        ELSE IF c.has_qgl \/ c.has_ztilt \/ c.ignore_alignment THEN "none"
        ELSE "no_alignment"
    ELSE IF c.has_probe THEN
        IF c.probe_x_offset = 0 /\ c.probe_y_offset = 0
        THEN "probe_offsets_zero"
        ELSE IF c.virtual_endstop THEN "probe_virtual_endstop"
        ELSE IF c.has_qgl \/ c.has_ztilt \/ c.ignore_alignment THEN "none"
        ELSE "no_alignment"
    ELSE "no_sensor"

\* Variant of select_adjusttype that looks at the ignore_alignment flag first.
select_adjusttype_flag_first(c) ==
    IF c.ignore_alignment THEN "ignore"
    ELSE IF c.has_qgl THEN "qgl"
    ELSE IF c.has_ztilt THEN "ztilt"
    ELSE "unset"

\* The alignment mode chosen by __init__.
select_adjusttype(c) ==
    IF c.has_qgl THEN "qgl"
    ELSE IF c.has_ztilt THEN "ztilt"
    ELSE IF c.ignore_alignment THEN "ignore"
    ELSE "unset"

\* x_offset and y_offset as read by __init__: from [bltouch] if that section
\* exists, else from [probe].
sensor_offsets(c) ==
    IF c.has_bltouch THEN << c.bltouch_x_offset, c.bltouch_y_offset >>
    ELSE << c.probe_x_offset, c.probe_y_offset >>

\* Variant of shifted_points that hands over the bed point first.
shifted_points_swapped(c) ==
    LET x_offset == sensor_offsets(c)[1]
        y_offset == sensor_offsets(c)[2]
    IN << << c.probe_points[2][1] - x_offset, c.probe_points[2][2] - y_offset >>,
          << c.probe_points[1][1] - x_offset, c.probe_points[1][2] - y_offset >> >>

\* The two points handed to ProbePointsHelper: endstop point, then bed point.
shifted_points(c) ==
    LET x_offset      == sensor_offsets(c)[1]
        y_offset      == sensor_offsets(c)[2]
        pointsEndstop == << c.probe_points[1][1] - x_offset,
                            c.probe_points[1][2] - y_offset >>
        pointsBed     == << c.probe_points[2][1] - x_offset,
                            c.probe_points[2][2] - y_offset >>
    IN << pointsEndstop, pointsBed >>

load_config ==
    /\ pc = "config"
    /\ IF config_error(config) = "none"
       THEN /\ self' = [ ignore_alignment |-> config.ignore_alignment,
                         offsetadjust |-> config.offsetadjust,
                         offset_min |-> config.offset_min,
                         offset_max |-> config.offset_max,
                         endstop_min |-> config.endstop_min,
                         endstop_max |-> config.endstop_max,
                         endstopswitch |-> config.endstopswitch,
                         speed |-> config.speed,
                         zHop |-> config.z_hop,
                         x_offset |-> sensor_offsets(config)[1],
                         y_offset |-> sensor_offsets(config)[2],
                         adjusttype |-> select_adjusttype(config),
                         probePoints |-> shifted_points(config),
                         minimum_points |-> 2 ]
            /\ registered' = TRUE
            /\ pc' = "ready"
            /\ err' = "none"
       ELSE /\ pc' = "config_error"
            /\ err' = config_error(config)
            /\ UNCHANGED << self, registered >>
    /\ UNCHANGED << config, gcode_offset_z, printer, kin_status,
                    alignment_status, positions, calc, offset_cmds, calls,
                    prior_offset >>

\* ------------------------------------------------------------- rounding
Pow10(k) == 10 ^ k

\* rounding(n, decimals) on a fixed-point n: expoN = n * 10 ** decimals is
\* the rational n / unit; the result is again in fixed-point units.
rounding(n, decimals) ==
    LET unit       == Pow10(Resolution - decimals)
        floorExpoN == n \div unit
        ceilExpoN  == -((-n) \div unit)
    IN  IF 2 * (Abs(n) - unit * Abs(floorExpoN)) < unit
        THEN floorExpoN * unit
        ELSE ceilExpoN * unit


\* ------------------------------------------------------ cmd_AUTO_OFFSET_Z
\* The status the host objects can report when the command is dispatched;
\* an alignment object exists only if its section is configured.
PrinterStatus ==
    [ homed_axes : SUBSET Axes,
      qgl_applied : IF config.has_qgl THEN BOOLEAN ELSE {FALSE},
      ztilt_applied : IF config.has_ztilt THEN BOOLEAN ELSE {FALSE} ]

\* The gcode dispatcher calls the registered handler.
Dispatch ==
    /\ pc \in {"ready", "done", "error"}
    /\ registered
    /\ printer' \in PrinterStatus
    /\ pc' = "check_homed"
    /\ kin_status' = {}
    /\ alignment_status' = "unread"
    /\ positions' = << >>
    /\ calc' = NoCalc
    /\ err' = "none"
    /\ offset_cmds' = << >>
    /\ calls' = NoCalls
    /\ prior_offset' = gcode_offset_z
    /\ UNCHANGED << config, self, registered, gcode_offset_z >>

\* Variant of not_homed that forgets the Z axis.
not_homed_xy_only(homed_axes) ==
    \/ "x" \notin homed_axes
    \/ "y" \notin homed_axes

not_homed(homed_axes) ==
    \/ "x" \notin homed_axes
    \/ "y" \notin homed_axes
    \/ "z" \notin homed_axes

\* Variant of CheckHomed with the zero-reset moved ahead of the validation.
CheckHomed_reset_first ==
    /\ pc = "check_homed"
    /\ kin_status' = printer.homed_axes
    /\ gcode_offset_z' = 0
    /\ offset_cmds' = Append(offset_cmds, 0)
    /\ IF not_homed(kin_status')
       THEN pc' = "error" /\ err' = "not_homed"
       ELSE pc' = "check_alignment" /\ UNCHANGED err
    /\ UNCHANGED << config, self, registered, printer, alignment_status,
                    positions, calc, calls, prior_offset >>

CheckHomed ==
    /\ pc = "check_homed"
    /\ kin_status' = printer.homed_axes
    /\ IF not_homed(kin_status')
       THEN pc' = "error" /\ err' = "not_homed"
       ELSE pc' = "check_alignment" /\ UNCHANGED err
    /\ UNCHANGED << config, self, registered, gcode_offset_z, printer,
                    alignment_status, positions, calc, offset_cmds, calls,
                    prior_offset >>

\* Variant of applied_status that always looks up quad_gantry_level.
applied_status_qgl_only(adjusttype) ==
    IF adjusttype \in {"qgl", "ztilt"} THEN printer.qgl_applied
    ELSE "unread"

\* The "applied" status of the alignment object looked up for a mode.
applied_status(adjusttype) ==
    IF adjusttype = "qgl" THEN printer.qgl_applied
    ELSE IF adjusttype = "ztilt" THEN printer.ztilt_applied
    ELSE "unread"

CheckAlignment ==
    /\ pc = "check_alignment"
    /\ alignment_status' = applied_status(self.adjusttype)
    /\ IF self.adjusttype \in {"qgl", "ztilt"}
       THEN IF alignment_status' # TRUE
            THEN pc' = "error" /\ err' = "alignment"
            ELSE pc' = "reset_offset" /\ UNCHANGED err
       ELSE IF self.adjusttype = "ignore"
            THEN pc' = "reset_offset" /\ UNCHANGED err
            ELSE pc' = "error" /\ err' = "NameError"
    /\ UNCHANGED << config, self, registered, gcode_offset_z, printer,
                    kin_status, positions, calc, offset_cmds, calls,
                    prior_offset >>

\* Variant of ResetOffset that issues no SET_GCODE_OFFSET command.
ResetOffset_skipped ==
    /\ pc = "reset_offset"
    /\ pc' = "start_probe"
    /\ UNCHANGED << config, self, registered, gcode_offset_z, printer,
                    kin_status, alignment_status, positions, calc, err,
                    offset_cmds, calls, prior_offset >>

\* SET_GCODE_OFFSET Z=0 ahead of probing.
ResetOffset ==
    /\ pc = "reset_offset"
    /\ gcode_offset_z' = 0
    /\ offset_cmds' = Append(offset_cmds, 0)
    /\ pc' = "start_probe"
    /\ UNCHANGED << config, self, registered, printer, kin_status,
                    alignment_status, positions, calc, err, calls,
                    prior_offset >>

StartProbe ==
    /\ pc = "start_probe"
    /\ calls' = [calls EXCEPT !.start_probe = @ + 1]
    /\ positions' = << >>
    /\ pc' = "probing"
    /\ UNCHANGED << config, self, registered, gcode_offset_z, printer,
                    kin_status, alignment_status, calc, err, offset_cmds,
                    prior_offset >>

\* The probe helper measures the next of its points; after the last one it
\* calls the finalize callback.
ProbePoint ==
    /\ pc = "probing"
    /\ Len(positions) < Len(self.probePoints)
    /\ \E z \in Heights :
         LET pt == self.probePoints[Len(positions) + 1]
         IN  positions' = Append(positions, << pt[1], pt[2], z >>)
    /\ pc' = IF Len(positions') = Len(self.probePoints)
             THEN "probe_finalize" ELSE "probing"
    /\ UNCHANGED << config, self, registered, gcode_offset_z, printer,
                    kin_status, alignment_status, calc, err, offset_cmds,
                    calls, prior_offset >>

\* Variant of ProbeFail in which the controller starts the probing again.
ProbeFail_retry ==
    /\ pc = "probing"
    /\ pc' = "start_probe"
    /\ UNCHANGED << config, self, registered, gcode_offset_z, printer,
                    kin_status, alignment_status, positions, calc, err,
                    offset_cmds, calls, prior_offset >>

\* A triggering attempt produces no measurement: the helper raises.
ProbeFail ==
    /\ pc = "probing"
    /\ pc' = "error"
    /\ err' = "probe_failed"
    /\ UNCHANGED << config, self, registered, gcode_offset_z, printer,
                    kin_status, alignment_status, positions, calc,
                    offset_cmds, calls, prior_offset >>

\* ---------------------------------------------------------- probe_finalize
probe_finalize ==
    /\ pc = "probe_finalize"
    /\ LET zendstop       == positions[1][3]
           zbed           == positions[2][3]
           diffbedendstop == zendstop - zbed
           offset         == rounding((0 - diffbedendstop + self.endstopswitch)
                                        + self.offsetadjust, Decimals)
       IN  calc' = [ zendstop |-> zendstop, zbed |-> zbed,
                     diffbedendstop |-> diffbedendstop, offset |-> offset ]
    /\ calls' = [calls EXCEPT !.probe_finalize = @ + 1]
    /\ pc' = "failsave"
    /\ UNCHANGED << config, self, registered, gcode_offset_z, printer,
                    kin_status, alignment_status, positions, err,
                    offset_cmds, prior_offset >>

\* Variant of offset_out_of_range with exclusive bounds.
offset_out_of_range_exclusive(offset, offset_min, offset_max) ==
    offset <= offset_min \/ offset >= offset_max

offset_out_of_range(offset, offset_min, offset_max) ==
    offset < offset_min \/ offset > offset_max

\* Variant of failsave_error without the tests for a limit of 0.
failsave_error_no_zero_test ==
    IF offset_out_of_range(calc.offset, self.offset_min, self.offset_max)
    THEN "offset_range"
    ELSE "TypeError"

\* The outcome of the checks between the report and the call of set_offset.
\* zendstop is the float positions[0][2]: evaluating zendstop[2] raises
\* TypeError, which happens as soon as the non-zero test before it passes.
failsave_error ==
    IF offset_out_of_range(calc.offset, self.offset_min, self.offset_max)
    THEN "offset_range"
    ELSE IF self.endstop_min # 0 THEN "TypeError"
    ELSE IF self.endstop_max # 0 THEN "TypeError"
    ELSE "none"

\* Variant of failsave in which set_offset runs ahead of the checks.
failsave_after_apply ==
    /\ pc = "failsave"
    /\ calls' = [calls EXCEPT !.set_offset = @ + 1]
    /\ offset_cmds' = offset_cmds \o << 0, calc.offset >>
    /\ gcode_offset_z' = calc.offset
    /\ IF failsave_error # "none"
       THEN pc' = "error" /\ err' = failsave_error
       ELSE pc' = "done" /\ UNCHANGED err
    /\ UNCHANGED << config, self, registered, printer, kin_status,
                    alignment_status, positions, calc, prior_offset >>

\* Variant of failsave that puts the prior offset back when a check fails.
failsave_restore_prior ==
    /\ pc = "failsave"
    /\ IF failsave_error # "none"
       THEN /\ pc' = "error" /\ err' = failsave_error
            /\ gcode_offset_z' = prior_offset
       ELSE /\ pc' = "set_offset" /\ UNCHANGED err
            /\ UNCHANGED gcode_offset_z
    /\ UNCHANGED << config, self, registered, printer, kin_status,
                    alignment_status, positions, calc, offset_cmds, calls,
                    prior_offset >>

failsave ==
    /\ pc = "failsave"
    /\ IF failsave_error # "none"
       THEN pc' = "error" /\ err' = failsave_error
       ELSE pc' = "set_offset" /\ UNCHANGED err
    /\ UNCHANGED << config, self, registered, gcode_offset_z, printer,
                    kin_status, alignment_status, positions, calc,
                    offset_cmds, calls, prior_offset >>

\* Variant of set_offset_cmds without the reset to zero.
set_offset_cmds_no_reset(offset) == << offset >>

\* The Z values of the SET_GCODE_OFFSET commands issued by set_offset(offset).
set_offset_cmds(offset) == << 0, offset >>

\* The Z offset installed after a sequence of SET_GCODE_OFFSET Z=v commands.
installed_after(z, cmds) == IF cmds = << >> THEN z ELSE cmds[Len(cmds)]

\* Variant of set_offset that issues its two commands in the wrong order.
set_offset_swapped ==
    /\ pc = "set_offset"
    /\ calls' = [calls EXCEPT !.set_offset = @ + 1]
    /\ offset_cmds' = offset_cmds \o << calc.offset, 0 >>
    /\ gcode_offset_z' = 0
    /\ pc' = "done"
    /\ UNCHANGED << config, self, registered, printer, kin_status,
                    alignment_status, positions, calc, err, prior_offset >>

\* SET_GCODE_OFFSET Z=0, then SET_GCODE_OFFSET Z=offset.
set_offset ==
    /\ pc = "set_offset"
    /\ calls' = [calls EXCEPT !.set_offset = @ + 1]
    /\ offset_cmds' = offset_cmds \o set_offset_cmds(calc.offset)
    /\ gcode_offset_z' =
         installed_after(gcode_offset_z, set_offset_cmds(calc.offset))
    /\ pc' = "done"
    /\ UNCHANGED << config, self, registered, printer, kin_status,
                    alignment_status, positions, calc, err, prior_offset >>

\* set_offset(v) called on its own, for any value and any installed offset.
set_offset_call ==
    /\ pc = "applier"
    /\ calls.set_offset < MaxApplierCalls
    /\ \E v \in AppliedValues :
         /\ calc' = [calc EXCEPT !.offset = v]
         /\ offset_cmds' = set_offset_cmds(v)
         /\ gcode_offset_z' = installed_after(gcode_offset_z, set_offset_cmds(v))
    /\ calls' = [calls EXCEPT !.set_offset = @ + 1]
    /\ prior_offset' = gcode_offset_z
    /\ UNCHANGED << config, self, registered, printer, pc, kin_status,
                    alignment_status, positions, err >>

\* ------------------------------------------------------------ specification
Init ==
    /\ config \in Configs
    /\ self = NoSelf
    /\ registered = FALSE
    /\ gcode_offset_z \in PriorOffsets
    /\ printer = [ homed_axes |-> {}, qgl_applied |-> FALSE,
                   ztilt_applied |-> FALSE ]
    /\ pc = "config"
    /\ kin_status = {}
    /\ alignment_status = "unread"
    /\ positions = << >>
    /\ calc = NoCalc
    /\ err = "none"
    /\ offset_cmds = << >>
    /\ calls = NoCalls
    /\ prior_offset = gcode_offset_z

Next ==
    \/ load_config
    \/ Dispatch
    \/ CheckHomed
    \/ CheckAlignment
    \/ ResetOffset
    \/ StartProbe
    \/ ProbePoint
    \/ ProbeFail
    \/ probe_finalize
    \/ failsave
    \/ set_offset

Spec == Init /\ [][Next]_vars

\* One command runs to its end: the handler is sequential and its
\* collaborators return.
CommandStep ==
    \/ CheckHomed
    \/ CheckAlignment
    \/ ResetOffset
    \/ StartProbe
    \/ ProbePoint
    \/ ProbeFail
    \/ probe_finalize
    \/ failsave
    \/ set_offset

SpecFair == Init /\ [][Next]_vars /\ WF_vars(CommandStep)

\* The controller loaded from every combination of sections.
InitSections ==
    /\ config \in SectionConfigs
    /\ self = NoSelf
    /\ registered = FALSE
    /\ gcode_offset_z = 7
    /\ printer = [ homed_axes |-> {}, qgl_applied |-> FALSE,
                   ztilt_applied |-> FALSE ]
    /\ pc = "config"
    /\ kin_status = {}
    /\ alignment_status = "unread"
    /\ positions = << >>
    /\ calc = NoCalc
    /\ err = "none"
    /\ offset_cmds = << >>
    /\ calls = NoCalls
    /\ prior_offset = gcode_offset_z

SpecSections == InitSections /\ [][Next]_vars

\* The Offset Applier on its own: set_offset called on any installed offset.
InitApplier ==
    /\ config = BaseConfig
    /\ self = NoSelf
    /\ registered = FALSE
    /\ gcode_offset_z \in AppliedValues
    /\ printer = [ homed_axes |-> {}, qgl_applied |-> FALSE,
                   ztilt_applied |-> FALSE ]
    /\ pc = "applier"
    /\ kin_status = {}
    /\ alignment_status = "unread"
    /\ positions = << >>
    /\ calc = NoCalc
    /\ err = "none"
    /\ offset_cmds = << >>
    /\ calls = NoCalls
    /\ prior_offset = gcode_offset_z

NextApplier == set_offset_call

SpecApplier == InitApplier /\ [][NextApplier]_vars


\* ------------------------------------------------------------------ claims
Sign(n) == IF n < 0 THEN -1 ELSE 1

\* Rounding to Decimals places with halves going away from zero.
round_half_away(n) == Sign(n) * ((2 * Abs(n) + Milli) \div (2 * Milli)) * Milli

\* The command has passed the homing check, resp. the whole validation.
PastHoming ==
    pc \notin {"config", "config_error", "ready", "check_homed"}

PastValidation ==
    /\ PastHoming
    /\ pc # "check_alignment"
    /\ err # "not_homed"

\* probe_finalize has computed the offset, resp. the checks after it ran.
Computed == calls.probe_finalize > 0

PastFailsave == Computed /\ pc # "failsave"

\* The value handed to rounding by probe_finalize.
RawOffset == (0 - calc.diffbedendstop + self.endstopswitch) + self.offsetadjust

\* C1: the offset computed by probe_finalize is
\* round3(-(endstopZ - bedZ) + triggerCompensation + manualAdjust), with
\* round3 rounding halves away from zero, also for negative values.
C1_OffsetIsRoundHalfAway ==
    Computed =>
        calc.offset = round_half_away(-(positions[1][3] - positions[2][3])
                                      + self.endstopswitch + self.offsetadjust)

\* C2: rounding(n, 3) truncates toward zero when the remainder of the scaled
\* value is below one half in absolute value, rounds away from zero
\* otherwise, and is odd: rounding(-x, 3) = -rounding(x, 3).
C2_RoundingSymmetric ==
    Computed =>
        LET x == RawOffset
            towardZero == Sign(x) * (Abs(x) \div Milli) * Milli
            awayFromZero == Sign(x) * (Abs(x) \div Milli + 1) * Milli
        IN  /\ calc.offset = IF 2 * (Abs(x) % Milli) < Milli
                             THEN towardZero ELSE awayFromZero
            /\ rounding(-x, Decimals) = -calc.offset

\* C3: a run that ends in a failure never invokes set_offset and issues no
\* offset command other than the zero-reset ahead of probing.
C3_NoApplyOnFailure ==
    err # "none" =>
        /\ calls.set_offset = 0
        /\ Len(offset_cmds) <= 1
        /\ \A i \in 1 .. Len(offset_cmds) : offset_cmds[i] = 0

C3_Witness ==
    /\ pc = "error"
    /\ err = "offset_range"
    /\ calc.offset > self.offset_max
    /\ prior_offset # 0

\* C4: after a successful run the installed Z offset is the rounded offset
\* computed from the two measured heights and the configuration, whatever
\* offset was installed before the run.
C4_InstalledOffset ==
    pc = "done" =>
        /\ gcode_offset_z = calc.offset
        /\ gcode_offset_z =
             rounding((0 - (positions[1][3] - positions[2][3])
                       + self.endstopswitch) + self.offsetadjust, Decimals)

C4_Witness ==
    /\ pc = "done"
    /\ prior_offset # 0
    /\ gcode_offset_z # 0
    /\ gcode_offset_z # prior_offset

\* C5: the command fails with the not-homed error exactly when one of x, y, z
\* is missing from homed_axes, and then start_probe has not been called.
C5_NotHomed ==
    PastHoming =>
        /\ (err = "not_homed") <=> ~(Axes \subseteq printer.homed_axes)
        /\ err = "not_homed" =>
             pc = "error" /\ calls.start_probe = 0 /\ positions = << >>

C5_Witness ==
    /\ err = "not_homed"
    /\ printer.homed_axes = {"x", "y"}

\* C6: in mode qgl (ztilt) a homed machine fails with the alignment error
\* exactly when quad_gantry_level (z_tilt) does not report applied, without
\* starting a probe; when it reports applied the command goes on to probing.
C6_AlignmentRequired ==
    (PastValidation /\ self.adjusttype \in {"qgl", "ztilt"}) =>
        LET applied == IF self.adjusttype = "qgl"
                       THEN printer.qgl_applied ELSE printer.ztilt_applied
        IN  /\ (err = "alignment") <=> ~applied
            /\ err = "alignment" => pc = "error" /\ calls.start_probe = 0
            /\ applied =>
                 pc \in {"reset_offset", "start_probe"} \/ calls.start_probe = 1

C6_Witness ==
    /\ self.adjusttype = "ztilt"
    /\ printer.ztilt_applied
    /\ pc = "probing"

\* C7: with ignore_alignment set, a homed machine goes on to probing without
\* the alignment status being read, whatever alignment sections exist.
C7_IgnoreBypassesAlignment ==
    (PastValidation /\ config.ignore_alignment) =>
        /\ err # "alignment"
        /\ alignment_status = "unread"

\* C8: from before the call of start_probe until both measurements are
\* taken, the installed Z offset is 0, whatever it was before the command.
C8_ProbeAtZeroOffset ==
    pc \in {"start_probe", "probing", "probe_finalize"} =>
        /\ gcode_offset_z = 0
        /\ offset_cmds = << 0 >>

C8_Witness ==
    /\ pc = "probing"
    /\ Len(positions) = 1
    /\ prior_offset # 0

\* C9: the checks fail with the offset-out-of-range error exactly when the
\* rounded offset is below offset_min or above offset_max; an offset equal to
\* a bound is accepted, one 0.001 beyond a bound is rejected.
C9_OffsetRangeInclusive ==
    PastFailsave =>
        /\ (err = "offset_range") <=>
             (calc.offset < self.offset_min \/ calc.offset > self.offset_max)
        /\ calc.offset \in {self.offset_min, self.offset_max} =>
             err # "offset_range"
        /\ calc.offset \in {self.offset_min - Milli, self.offset_max + Milli} =>
             err = "offset_range"

C9_Witness ==
    /\ pc = "done"
    /\ calc.offset = self.offset_max

\* C10: with an endstop limit configured non-zero and the offset in range,
\* the run fails with the endstop-out-of-range error exactly when the raw
\* endstop Z is beyond that limit; a reading inside the limits is applied.
C10_EndstopGuard ==
    (PastFailsave /\ err # "offset_range") =>
        LET below == self.endstop_min # 0 /\ calc.zendstop < self.endstop_min
            above == self.endstop_max # 0 /\ calc.zendstop > self.endstop_max
        IN  /\ (err = "endstop_range") <=> (below \/ above)
            /\ ~(below \/ above) => pc \in {"set_offset", "done"}

\* C11: an endstop limit of 0 disables its check: a failure of the endstop
\* checks needs endstop_min non-zero (minimum check) or endstop_max non-zero
\* (maximum check), whatever the measured endstop Z; with both limits 0 the
\* outcome of the checks is decided by the offset range check alone.
C11_ZeroLimitDisabled ==
    PastFailsave =>
        LET endstopFailure == err \in {"endstop_range", "TypeError"}
            inRange == /\ calc.offset >= self.offset_min
                       /\ calc.offset <= self.offset_max
        IN  /\ (self.endstop_min = 0 /\ endstopFailure) => self.endstop_max # 0
            /\ (self.endstop_max = 0 /\ endstopFailure) => self.endstop_min # 0
            /\ (self.endstop_min = 0 /\ self.endstop_max = 0) =>
                 /\ ~endstopFailure
                 /\ inRange <=> pc \in {"set_offset", "done"}
                 /\ ~inRange <=> (pc = "error" /\ err = "offset_range")

C11_Witness ==
    /\ pc = "done"
    /\ self.endstop_min = 0
    /\ self.endstop_max = 0
    /\ calc.zendstop = -MaxZ

\* C12: whatever offset is installed, set_offset(V) issues exactly the two
\* commands Z=0, Z=V in this order and leaves V installed; a second call
\* with the same V ends in the same offset as the first.
C12_SetOffsetIdempotent ==
    calls.set_offset >= 1 =>
        /\ offset_cmds = << 0, calc.offset >>
        /\ gcode_offset_z = calc.offset
        /\ (calls.set_offset = 2 /\ prior_offset = calc.offset) =>
             gcode_offset_z = prior_offset

C12_Witness ==
    /\ calls.set_offset = 2
    /\ prior_offset = calc.offset
    /\ gcode_offset_z = MaxApplied

\* C13: a run that fails after the validation has passed (probe failure or a
\* failed check of probe_finalize) leaves the installed Z offset at exactly
\* 0, whatever offset was installed before the run.
C13_FailureLeavesZero ==
    (pc = "error" /\ PastValidation /\ err \notin {"alignment", "NameError"}) =>
        /\ gcode_offset_z = 0
        /\ offset_cmds = << 0 >>

C13_Witness ==
    /\ pc = "error"
    /\ err = "offset_range"
    /\ calc.offset = self.offset_max + Milli
    /\ prior_offset = 7
    /\ gcode_offset_z = 0

\* C14: a run that fails in the validation (not homed, alignment not applied)
\* leaves the installed Z offset as it was before the command: no offset
\* command has been issued and no probe started.
C14_ValidationMutatesNothing ==
    err \in {"not_homed", "alignment"} =>
        /\ gcode_offset_z = prior_offset
        /\ offset_cmds = << >>
        /\ calls = NoCalls
        /\ positions = << >>

C14_Witness ==
    /\ pc = "error"
    /\ err = "alignment"
    /\ prior_offset = -20
    /\ gcode_offset_z = -20

\* The controller has been constructed, resp. construction has ended.
Constructed == pc \notin {"config", "config_error", "applier"}

ConstructionEnded == pc \notin {"config", "applier"}

\* C15: the probe helper gets exactly two points and a minimum of two
\* points: first the configured endstop point, then the configured bed
\* point, each less the sensor's x_offset and y_offset; probe_finalize takes
\* the first result as the endstop height and the second as the bed height.
C15_TwoPointsEndstopFirst ==
    LET x_offset == IF config.has_bltouch THEN config.bltouch_x_offset
                    ELSE config.probe_x_offset
        y_offset == IF config.has_bltouch THEN config.bltouch_y_offset
                    ELSE config.probe_y_offset
        endstopPoint == << config.probe_points[1][1] - x_offset,
                           config.probe_points[1][2] - y_offset >>
        bedPoint == << config.probe_points[2][1] - x_offset,
                       config.probe_points[2][2] - y_offset >>
    IN  /\ Constructed =>
             /\ self.probePoints = << endstopPoint, bedPoint >>
             /\ self.minimum_points = 2
             /\ Len(positions) <= 2
        /\ Computed =>
             /\ Len(positions) = 2
             /\ << positions[1][1], positions[1][2] >> = endstopPoint
             /\ << positions[2][1], positions[2][2] >> = bedPoint
             /\ calc.zendstop = positions[1][3]
             /\ calc.zbed = positions[2][3]

C15_Witness ==
    /\ Computed
    /\ ~config.has_bltouch
    /\ config.probe_y_offset # 0
    /\ calc.zendstop = MaxZ
    /\ calc.zbed = -MaxZ

\* The cases of a configuration error listed by C18.
ListedConfigFault ==
    \/ ~config.has_safe_z_home
    \/ config.z_hop = 0
    \/ ~config.has_bltouch /\ ~config.has_probe
    \/ /\ config.has_bltouch
       /\ config.bltouch_x_offset = 0
       /\ config.bltouch_y_offset = 0
    \/ /\ ~config.has_bltouch
       /\ config.probe_x_offset = 0
       /\ config.probe_y_offset = 0
    \/ config.virtual_endstop
    \/ ~config.has_qgl /\ ~config.has_ztilt /\ ~config.ignore_alignment

\* C18 as stated: construction fails with a configuration error, without
\* registering AUTO_OFFSET_Z, in each listed case, and succeeds for every
\* configuration in none of them.
C18_ConstructionFailsExactly ==
    ConstructionEnded =>
        /\ ListedConfigFault => (pc = "config_error" /\ ~registered)
        /\ ~ListedConfigFault => (pc # "config_error" /\ registered)

\* C18 as amended: a speed that is not above 0 is a further case of failure;
\* construction succeeds for every configuration in none of the cases.
C18_ConstructionFailsExactlyWithSpeed ==
    ConstructionEnded =>
        LET fault == ListedConfigFault \/ ~(config.speed > 0)
        IN  /\ fault => (pc = "config_error" /\ ~registered)
            /\ ~fault => (pc # "config_error" /\ registered)

C18_Witness ==
    /\ pc = "config_error"
    /\ ~registered
    /\ config.speed > 0
    /\ config.has_probe
    /\ ~config.has_bltouch
    /\ config.virtual_endstop
    /\ config.probe_x_offset # 0
    /\ config.has_safe_z_home
    /\ config.z_hop # 0
    /\ config.has_qgl

\* C16: one invocation starts the probing at most once and runs the finalize
\* callback at most once, on exactly two results; after a failed triggering
\* attempt the command has ended with that failure, and neither
\* probe_finalize nor set_offset has run.
C16_NoRetry ==
    /\ calls.start_probe <= 1
    /\ calls.probe_finalize <= 1
    /\ Len(positions) <= 2
    /\ (calls.probe_finalize = 1 /\ pc # "applier") => calls.start_probe = 1
    /\ err = "probe_failed" =>
         /\ pc = "error"
         /\ calls = [ start_probe |-> 1, probe_finalize |-> 0,
                      set_offset |-> 0 ]
         /\ calc = NoCalc

C16_Witness ==
    /\ err = "probe_failed"
    /\ Len(positions) = 1

\* The stages of one invocation and the steps allowed between them.
StageTransitions ==
    { << "config", "ready" >>, << "config", "config_error" >>,
      << "ready", "check_homed" >>, << "done", "check_homed" >>,
      << "error", "check_homed" >>,
      << "check_homed", "check_alignment" >>, << "check_homed", "error" >>,
      << "check_alignment", "reset_offset" >>, << "check_alignment", "error" >>,
      << "reset_offset", "start_probe" >>,
      << "start_probe", "probing" >>,
      << "probing", "probe_finalize" >>, << "probing", "error" >>,
      << "probe_finalize", "failsave" >>,
      << "failsave", "set_offset" >>, << "failsave", "error" >>,
      << "set_offset", "done" >> }

\* The errors the command raises as command errors.
CommandErrors ==
    {"not_homed", "alignment", "probe_failed", "offset_range", "endstop_range"}

\* C17: an invocation goes through validate (homing, then alignment),
\* zero-reset, the two probes (endstop point, then bed point), compute,
\* limit checks, reset-then-set in this order, and ends either in success
\* with the offset applied or in one command error.
C17_StagesInOrder ==
    /\ [][ /\ pc' # pc => << pc, pc' >> \in StageTransitions
           /\ Len(positions') \in {0, Len(positions), Len(positions) + 1}
         ]_vars
    /\ [](pc = "done" =>
            /\ err = "none"
            /\ gcode_offset_z = calc.offset
            /\ offset_cmds = << 0, 0, calc.offset >>)
    /\ [](pc = "error" => err \in CommandErrors)
    /\ (pc = "check_homed") ~> (pc \in {"done", "error"})

\* C19: once constructed, adjusttype is one of qgl, ztilt, ignore, chosen
\* with priority [quad_gantry_level] over [z_tilt] over ignore_alignment,
\* and never changes; the last else branch of the alignment check, which
\* raises NameError, is never taken.
C19_AdjusttypeFixed ==
    /\ [](Constructed =>
            /\ self.adjusttype \in {"qgl", "ztilt", "ignore"}
            /\ self.adjusttype = "qgl" <=> config.has_qgl
            /\ self.adjusttype = "ztilt" <=>
                 (~config.has_qgl /\ config.has_ztilt)
            /\ self.adjusttype = "ignore" <=>
                 (~config.has_qgl /\ ~config.has_ztilt
                  /\ config.ignore_alignment)
            /\ err # "NameError")
    /\ [][Constructed => self'.adjusttype = self.adjusttype]_vars

C19_Witness ==
    /\ pc = "done"
    /\ config.has_qgl
    /\ config.has_ztilt
    /\ config.ignore_alignment
    /\ self.adjusttype = "qgl"

====
